---- MODULE Spec2Model ----
(***************************************************************************)
(* Media search aggregator: fetchMedia (src/utils/fetchMedia.ts) and the   *)
(* result accumulation of the search page (src/app/search/page.tsx), and   *)
(* the sign-up action registerUser (src/app/auth/signup/actions.ts) and    *)
(* the size probe fetchSize of the page, and the related items of the      *)
(* page's detail modal.                                                    *)
(*                                                                         *)
(* Text that the code inspects character by character (titles, tags,       *)
(* exclusion words, the query) is a sequence of one-character strings.     *)
(* Identifiers the code only compares or concatenates (ids, sources,       *)
(* licenses, error messages) are strings.                                  *)
(***************************************************************************)
EXTENDS Integers, Sequences, FiniteSets, TLC

\* The fields of the model's records. Every record constructor below lists
\* its fields in this order.
FieldNames ==
  <<"append", "args", "call", "called", "contentLength", "contentRange", "count", "creates",
    "email", "endpoint", "error", "exactPhrase", "excludeWords", "getResponse",
    "hasTags", "hashes", "headResponse", "http", "id", "item", "items", "key",
    "kind", "license", "licenseFilter", "lookups", "name", "order", "ov", "page",
    "page_size", "password", "pc", "per_page", "provider", "px", "q", "query",
    "registered", "repeat", "request", "requests", "result", "results", "seen", "seenAfter",
    "seenBefore", "size", "sortBy", "source", "sourceFilter", "status", "tags", "title",
    "total", "type", "url">>

\* ------------------------------------------------------------------------
\* Bounds of the exploration
\* ------------------------------------------------------------------------
\* longest result list a provider returns in one response
MaxResults == 2
\* highest page a load-more may request
MaxPage == 3
\* most calls of fetchMediaCallback in one session of the page
MaxFetches == 4
\* most calls of registerUser, overlapping or not
MaxRegistrations == 2
\* most calls of fetchRelatedItems awaiting their response at one time
MaxRelatedFetches == 2
\* highest page of related items a load-more may request
MaxRelatedPage == 2

\* ------------------------------------------------------------------------
\* Vocabulary
\* ------------------------------------------------------------------------
Types == {"images", "audio", "videos"}
Sources == {"openverse", "pixabay"}
SourceFilters == {"all", "openverse", "pixabay"}
SortKeys == {"relevance", "size", "title-asc", "title-desc", "source-asc", "source-desc"}
\* an environment variable or a field that is not set
Undefined == "undefined"
\* the size field: <<>> when undefined, <<n>> for a number of bytes
NoSize == <<>>
Untitled == <<"U", "n", "t", "i", "t", "l", "e", "d">>

\* ------------------------------------------------------------------------
\* String primitives of the JavaScript runtime, on character sequences
\* ------------------------------------------------------------------------
LowerChar(c) ==
  CASE c = "A" -> "a"
    [] c = "B" -> "b"
    [] c = "U" -> "u"
    [] OTHER -> c

ToLowerCase(s) == [i \in 1..Len(s) |-> LowerChar(s[i])]

IsSpace(c) == c = " "

RECURSIVE TrimStart(_)
TrimStart(s) ==
  IF s # <<>> /\ IsSpace(Head(s)) THEN TrimStart(Tail(s)) ELSE s

RECURSIVE TrimEnd(_)
TrimEnd(s) ==
  IF s # <<>> /\ IsSpace(s[Len(s)]) THEN TrimEnd(SubSeq(s, 1, Len(s) - 1)) ELSE s

Trim(s) == TrimEnd(TrimStart(s))

\* String.prototype.includes
Includes(hay, needle) ==
  \E i \in 0..(Len(hay) - Len(needle)) : SubSeq(hay, i + 1, i + Len(needle)) = needle

\* String.prototype.split on a one-character separator: every segment,
\* empty ones included
RECURSIVE SplitAcc(_, _, _)
SplitAcc(s, sep, cur) ==
  IF s = <<>> THEN <<cur>>
  ELSE IF Head(s) = sep THEN <<cur>> \o SplitAcc(Tail(s), sep, <<>>)
  ELSE SplitAcc(Tail(s), sep, Append(cur, Head(s)))

Split(s, sep) == SplitAcc(s, sep, <<>>)

\* split(/\s+/) followed by filter((term) => term): the maximal runs of
\* non-space characters
RECURSIVE WordsAcc(_, _)
WordsAcc(s, cur) ==
  IF s = <<>> THEN (IF cur = <<>> THEN <<>> ELSE <<cur>>)
  ELSE IF IsSpace(Head(s))
       THEN (IF cur = <<>> THEN <<>> ELSE <<cur>>) \o WordsAcc(Tail(s), <<>>)
       ELSE WordsAcc(Tail(s), Append(cur, Head(s)))

Words(s) == WordsAcc(s, <<>>)

\* Array.prototype.join
RECURSIVE Join(_, _)
Join(parts, sep) ==
  IF parts = <<>> THEN <<>>
  ELSE IF Len(parts) = 1 THEN parts[1]
  ELSE parts[1] \o sep \o Join(Tail(parts), sep)

\* String.prototype.localeCompare on the model's alphabet: punctuation and
\* space before letters, letters alphabetically without regard to case,
\* and on an otherwise equal pair lower case before upper case.
CharRank(c) ==
  CASE c = " " -> 0
    [] c = "," -> 1
    [] LowerChar(c) = "a" -> 2
    [] LowerChar(c) = "b" -> 3
    [] LowerChar(c) = "d" -> 4
    [] LowerChar(c) = "e" -> 5
    [] LowerChar(c) = "i" -> 6
    [] LowerChar(c) = "l" -> 7
    [] LowerChar(c) = "n" -> 8
    [] LowerChar(c) = "t" -> 9
    [] LowerChar(c) = "u" -> 10
    [] OTHER -> 11

CaseRank(c) == IF LowerChar(c) = c THEN 0 ELSE 1

RECURSIVE LexCompare(_, _)
LexCompare(a, b) ==
  IF a = <<>> /\ b = <<>> THEN 0
  ELSE IF a = <<>> THEN -1
  ELSE IF b = <<>> THEN 1
  ELSE IF Head(a) < Head(b) THEN -1
  ELSE IF Head(a) > Head(b) THEN 1
  ELSE LexCompare(Tail(a), Tail(b))

LocaleCompare(a, b) ==
  LET pa == [i \in 1..Len(a) |-> CharRank(a[i])]
      pb == [i \in 1..Len(b) |-> CharRank(b[i])]
      ca == [i \in 1..Len(a) |-> CaseRank(a[i])]
      cb == [i \in 1..Len(b) |-> CaseRank(b[i])]
  IN  IF LexCompare(pa, pb) # 0 THEN LexCompare(pa, pb) ELSE LexCompare(ca, cb)

\* localeCompare of the two source tags
SourceCompare(a, b) ==
  IF a = b THEN 0 ELSE IF a = "openverse" THEN -1 ELSE 1

\* ------------------------------------------------------------------------
\* Provider JSON and its mapping to MediaResult
\* ------------------------------------------------------------------------
\* An Openverse result: title <<>> and license "" stand for a missing or
\* empty field; tags are the names of the provider's tag objects.
OvItem(id, title, license, tags) ==
  [id |-> id, license |-> license, tags |-> tags, title |-> title]

\* A Pixabay hit: tags is the provider's comma-joined tag string, absent
\* when hasTags is FALSE.
PxHit(id, hasTags, tags) == [hasTags |-> hasTags, id |-> id, tags |-> tags]

\* fetchMedia.ts, the Openverse map callback (images and audio)
MapOpenverse(item) ==
  [id |-> item.id,
   license |-> IF item.license = "" THEN "Unknown" ELSE item.license,
   size |-> NoSize,
   source |-> "openverse",
   tags |-> item.tags,
   title |-> IF item.title = <<>> THEN Untitled ELSE item.title]

TrimAll(parts) == [i \in 1..Len(parts) |-> Trim(parts[i])]

\* fetchMedia.ts, the Pixabay map callback (images and videos)
MapPixabay(hit) ==
  [id |-> hit.id,
   license |-> "Pixabay License",
   size |-> NoSize,
   source |-> "pixabay",
   tags |-> IF hit.hasTags THEN TrimAll(Split(hit.tags, ",")) ELSE <<>>,
   title |-> IF ~hit.hasTags \/ hit.tags = <<>> THEN Untitled ELSE hit.tags]

MapOpenverseAll(raw) == [i \in 1..Len(raw) |-> MapOpenverse(raw[i])]

MapPixabayAll(raw) == [i \in 1..Len(raw) |-> MapPixabay(raw[i])]

\* the composite key `${item.source}-${item.id}`
Key(item) == item.source \o "-" \o item.id

Keys(items) == {Key(items[i]) : i \in 1..Len(items)}

\* ------------------------------------------------------------------------
\* Post-processing: exclusion filter, license filter, sort, deduplication
\* ------------------------------------------------------------------------
Haystack_TitleOnly(item) == ToLowerCase(item.title)

\* `${item.title.toLowerCase()} ${(item.tags || []).join(' ').toLowerCase()}`
Haystack(item) ==
  ToLowerCase(item.title) \o <<" ">> \o ToLowerCase(Join(item.tags, <<" ">>))

ExcludeTerms(excludeWords) == Words(ToLowerCase(excludeWords))

Excluded(item, excludeWords) ==
  \E k \in 1..Len(ExcludeTerms(excludeWords)) :
    Includes(Haystack(item), ExcludeTerms(excludeWords)[k])

ExcludeFilter(items, excludeWords) ==
  IF Trim(excludeWords) # <<>>
  THEN LET Keep(item) == ~Excluded(item, excludeWords) IN SelectSeq(items, Keep)
  ELSE items

LicenseFilter_Off(items, licenseFilter, sourceFilter) == items

LicenseFilter(items, licenseFilter, sourceFilter) ==
  IF licenseFilter # "all" /\ sourceFilter = "openverse"
  THEN LET Keep(item) == item.source = "openverse" /\ item.license = licenseFilter
       IN  SelectSeq(items, Keep)
  ELSE items

SizeOrZero(item) == IF item.size = NoSize THEN 0 ELSE item.size[1]

Compare_TitleSwapped(a, b, sortBy, type) ==
  CASE sortBy = "size" -> SizeOrZero(b) - SizeOrZero(a)
    [] sortBy = "title-asc" -> LocaleCompare(b.title, a.title)
    [] sortBy = "title-desc" -> LocaleCompare(a.title, b.title)
    [] sortBy = "source-asc" /\ type = "images" -> SourceCompare(a.source, a.source)
    [] sortBy = "source-desc" /\ type = "images" -> SourceCompare(b.source, a.source)
    [] OTHER -> 0

Compare_SourceDescAsAsc(a, b, sortBy, type) ==
  CASE sortBy = "size" -> SizeOrZero(b) - SizeOrZero(a)
    [] sortBy = "title-asc" -> LocaleCompare(a.title, b.title)
    [] sortBy = "title-desc" -> LocaleCompare(b.title, a.title)
    [] sortBy = "source-asc" /\ type = "images" -> SourceCompare(a.source, a.source)
    [] sortBy = "source-desc" /\ type = "images" -> SourceCompare(a.source, a.source)
    [] OTHER -> 0

\* the comparator passed to Array.prototype.sort for each sort key; the
\* audio and video branches have no source-asc / source-desc case
Compare(a, b, sortBy, type) ==
  CASE sortBy = "size" -> SizeOrZero(b) - SizeOrZero(a)
    [] sortBy = "title-asc" -> LocaleCompare(a.title, b.title)
    [] sortBy = "title-desc" -> LocaleCompare(b.title, a.title)
    [] sortBy = "source-asc" /\ type = "images" -> SourceCompare(a.source, a.source)
    [] sortBy = "source-desc" /\ type = "images" -> SourceCompare(b.source, a.source)
    [] OTHER -> 0

\* Array.prototype.sort is stable: an element is inserted behind every
\* element of the sorted prefix that does not compare greater than it
RECURSIVE InsertSorted_Unstable(_, _, _, _)
InsertSorted_Unstable(x, sorted, sortBy, type) ==
  IF sorted = <<>> THEN <<x>>
  ELSE IF Compare(x, Head(sorted), sortBy, type) <= 0 THEN <<x>> \o sorted
  ELSE <<Head(sorted)>> \o InsertSorted_Unstable(x, Tail(sorted), sortBy, type)

RECURSIVE InsertSorted(_, _, _, _)
InsertSorted(x, sorted, sortBy, type) ==
  IF sorted = <<>> THEN <<x>>
  ELSE IF Compare(x, Head(sorted), sortBy, type) < 0 THEN <<x>> \o sorted
  ELSE <<Head(sorted)>> \o InsertSorted(x, Tail(sorted), sortBy, type)

RECURSIVE SortFrom(_, _, _, _)
SortFrom(items, sorted, sortBy, type) ==
  IF items = <<>> THEN sorted
  ELSE SortFrom(Tail(items), InsertSorted(Head(items), sorted, sortBy, type), sortBy, type)

SortItems(items, sortBy, type) == SortFrom(items, <<>>, sortBy, type)

\* filter, filter, sort: the list the deduplication loop walks
PostProcess(items, excludeWords, licenseFilter, sortBy, sourceFilter, type) ==
  SortItems(
    LicenseFilter(ExcludeFilter(items, excludeWords), licenseFilter, sourceFilter),
    sortBy, type)

RECURSIVE DedupLoop_LastWins(_, _, _, _)
DedupLoop_LastWins(items, mapKeys, kept, seen) ==
  IF items = <<>> THEN [items |-> kept, seen |-> seen]
  ELSE IF Key(Head(items)) \in mapKeys
       THEN DedupLoop_LastWins(Tail(items), mapKeys,
              [i \in 1..Len(kept) |->
                 IF Key(kept[i]) = Key(Head(items)) THEN Head(items) ELSE kept[i]],
              seen)
       ELSE DedupLoop_LastWins(Tail(items), mapKeys \cup {Key(Head(items))},
                               Append(kept, Head(items)), seen \cup {Key(Head(items))})

RECURSIVE DedupLoop_Prepend(_, _, _, _)
DedupLoop_Prepend(items, mapKeys, kept, seen) ==
  IF items = <<>> THEN [items |-> kept, seen |-> seen]
  ELSE IF Key(Head(items)) \in mapKeys
       THEN DedupLoop_Prepend(Tail(items), mapKeys, kept, seen)
       ELSE DedupLoop_Prepend(Tail(items), mapKeys \cup {Key(Head(items))},
                              <<Head(items)>> \o kept, seen \cup {Key(Head(items))})

\* allItems.forEach: an item whose key the Map does not hold yet is set in
\* the Map and its key added to the ref; Array.from(map.values()) then
\* yields the Map's items in insertion order
RECURSIVE DedupLoop(_, _, _, _)
DedupLoop(items, mapKeys, kept, seen) ==
  IF items = <<>> THEN [items |-> kept, seen |-> seen]
  ELSE IF Key(Head(items)) \in mapKeys
       THEN DedupLoop(Tail(items), mapKeys, kept, seen)
       ELSE DedupLoop(Tail(items), mapKeys \cup {Key(Head(items))},
                      Append(kept, Head(items)), seen \cup {Key(Head(items))})

Deduplicate_Replace(items, seen) == DedupLoop(items, {}, <<>>, {})

Deduplicate_SkipSeen(items, seen) == DedupLoop(items, seen, <<>>, seen)

Deduplicate(items, seen) == DedupLoop(items, {}, <<>>, seen)

\* ------------------------------------------------------------------------
\* Provider responses and requests
\* ------------------------------------------------------------------------
\* What one provider call yields: kind "ok" with the JSON's result list and
\* count field (0 when the field is missing or zero), kind "neterr" when
\* fetch rejects, kind "status" when the response is not ok.
Response(kind, res, count) == [count |-> count, kind |-> kind, results |-> res]

OpenverseRequest_WithLicense(endpoint, q, page) ==
  [endpoint |-> endpoint, license |-> "by", page |-> page, page_size |-> 20,
   provider |-> "openverse", q |-> q]

\* the request's fields are the parameters its URL carries
OpenverseRequest(endpoint, q, page) ==
  [endpoint |-> endpoint, page |-> page, page_size |-> 20,
   provider |-> "openverse", q |-> q]

PixabayRequest(endpoint, key, q, page, sortBy) ==
  [endpoint |-> endpoint, key |-> key,
   order |-> IF sortBy = "size" THEN "popular" ELSE "",
   page |-> page, per_page |-> 20, provider |-> "pixabay", q |-> q]

\* the error a failed provider call raises: the rejection of fetch, or the
\* Error built from the response (its body text, appended after a colon, is
\* left out)
ProviderError(resp, what) ==
  IF resp.kind = "neterr" THEN "fetch failed" ELSE "Failed to fetch " \o what

KeyMissing_UndefinedOnly(pixabayApiKey) == pixabayApiKey = Undefined

\* pixabayApiKey === undefined || pixabayApiKey === ''
KeyMissing(pixabayApiKey) == pixabayApiKey = Undefined \/ pixabayApiKey = ""

RethrowsOpenverse_Never(sourceFilter) == FALSE

\* the catch around the Openverse image call: if (sourceFilter === 'openverse') throw err
RethrowsOpenverse(sourceFilter) == sourceFilter = "openverse"

RethrowsPixabay_Always(sourceFilter) == TRUE

\* the catch around the Pixabay image call: if (sourceFilter === 'pixabay') throw err
RethrowsPixabay(sourceFilter) == sourceFilter = "pixabay"

KeyError == "Pixabay API key is not set"

\* data.result_count || items.length
CountOr(count, len) == IF count # 0 THEN count ELSE len

Max(a, b) == IF a >= b THEN a ELSE b

\* a settled call: the returned FetchResult or the thrown error, the
\* requests it issued, and the three refs as it leaves them
Ok(items, total, http, seen) ==
  [error |-> "", http |-> http, items |-> items, seen |-> seen, status |-> "ok",
   total |-> total]

Throw_ClearsSeen(message, http, seen) ==
  [error |-> message, http |-> http, items |-> <<>>, seen |-> [t \in Types |-> {}],
   status |-> "error", total |-> 0]

Throw(message, http, seen) ==
  [error |-> message, http |-> http, items |-> <<>>, seen |-> seen,
   status |-> "error", total |-> 0]

EmptyQuery_Untrimmed(query) == query = <<>>

\* let searchQuery = query.trim(); if (!searchQuery)
EmptyQuery(query) == Trim(query) = <<>>

\* const searchQuery after the trim and the exact-phrase prefix
SearchQuery(query, exactPhrase) ==
  IF Trim(exactPhrase) # <<>>
  THEN Trim(<<"\"">> \o Trim(exactPhrase) \o <<"\"", " ">> \o Trim(query))
  ELSE Trim(query)

\* ------------------------------------------------------------------------
\* fetchMedia: its outcome as a function of the arguments, the configured
\* Pixabay key and the responses of the providers it calls
\* ------------------------------------------------------------------------
FetchImages(page, q, excludeWords, licenseFilter, sortBy, sourceFilter, pixabayApiKey, seen, ov, px) ==
  LET useOv == sourceFilter \in {"all", "openverse"}
      usePx == sourceFilter \in {"all", "pixabay"}
      ovHttp == IF useOv THEN <<OpenverseRequest("images", q, page)>> ELSE <<>>
      ovOk == useOv /\ ov.kind = "ok"
      ovImages == IF ovOk THEN MapOpenverseAll(ov.results) ELSE <<>>
      total1 == IF ovOk THEN Max(0, CountOr(ov.count, Len(ovImages))) ELSE 0
      pxCalled == usePx /\ ~KeyMissing(pixabayApiKey)
      pxHttp == IF pxCalled
                THEN <<PixabayRequest("images", pixabayApiKey, q, page, sortBy)>>
                ELSE <<>>
      pxOk == pxCalled /\ px.kind = "ok"
      pxImages == IF pxOk THEN MapPixabayAll(px.results) ELSE <<>>
      total2 == IF pxOk THEN Max(total1, CountOr(px.count, Len(pxImages))) ELSE total1
      allItems == PostProcess(ovImages \o pxImages, excludeWords, licenseFilter,
                              sortBy, sourceFilter, "images")
      dedup == Deduplicate(allItems, seen["images"])
  IN  IF useOv /\ ~ovOk /\ RethrowsOpenverse(sourceFilter)
      THEN Throw(ProviderError(ov, "images from Openverse"), ovHttp, seen)
      ELSE IF usePx /\ KeyMissing(pixabayApiKey) /\ sourceFilter = "pixabay"
      THEN Throw(KeyError, ovHttp, seen)
      ELSE IF pxCalled /\ ~pxOk /\ RethrowsPixabay(sourceFilter)
      THEN Throw(ProviderError(px, "images from Pixabay"), ovHttp \o pxHttp, seen)
      ELSE Ok(dedup.items, total2, ovHttp \o pxHttp,
              [seen EXCEPT !["images"] = dedup.seen])

FetchAudio_Swallow(page, q, excludeWords, licenseFilter, sortBy, sourceFilter, seen, ov) ==
  LET http == <<OpenverseRequest("audio", q, page)>>
      allAudios == PostProcess(MapOpenverseAll(ov.results), excludeWords,
                               licenseFilter, sortBy, sourceFilter, "audio")
      dedup == Deduplicate(allAudios, seen["audio"])
  IN  IF sourceFilter = "pixabay" THEN Ok(<<>>, 0, <<>>, seen)
      ELSE IF ov.kind # "ok" /\ sourceFilter = "openverse"
      THEN Throw(ProviderError(ov, "audio from Openverse"), http, seen)
      ELSE IF ov.kind # "ok" THEN Ok(<<>>, 0, http, seen)
      ELSE Ok(dedup.items, CountOr(ov.count, Len(dedup.items)), http,
              [seen EXCEPT !["audio"] = dedup.seen])

FetchAudio_AnySource(page, q, excludeWords, licenseFilter, sortBy, sourceFilter, seen, ov) ==
  LET http == <<OpenverseRequest("audio", q, page)>>
      allAudios == PostProcess(MapOpenverseAll(ov.results), excludeWords,
                               licenseFilter, sortBy, sourceFilter, "audio")
      dedup == Deduplicate(allAudios, seen["audio"])
  IN  IF ov.kind # "ok"
      THEN Throw(ProviderError(ov, "audio from Openverse"), http, seen)
      ELSE Ok(dedup.items, CountOr(ov.count, Len(dedup.items)), http,
              [seen EXCEPT !["audio"] = dedup.seen])

FetchAudio(page, q, excludeWords, licenseFilter, sortBy, sourceFilter, seen, ov) ==
  LET http == <<OpenverseRequest("audio", q, page)>>
      allAudios == PostProcess(MapOpenverseAll(ov.results), excludeWords,
                               licenseFilter, sortBy, sourceFilter, "audio")
      dedup == Deduplicate(allAudios, seen["audio"])
  IN  IF sourceFilter = "pixabay" THEN Ok(<<>>, 0, <<>>, seen)
      ELSE IF ov.kind # "ok"
      THEN Throw(ProviderError(ov, "audio from Openverse"), http, seen)
      ELSE Ok(dedup.items, CountOr(ov.count, Len(dedup.items)), http,
              [seen EXCEPT !["audio"] = dedup.seen])

\* the video branch has no license filter
FetchVideos(page, q, excludeWords, sortBy, sourceFilter, pixabayApiKey, seen, px) ==
  LET http == <<PixabayRequest("videos", pixabayApiKey, q, page, sortBy)>>
      allVideos == PostProcess(MapPixabayAll(px.results), excludeWords,
                               "all", sortBy, sourceFilter, "videos")
      dedup == Deduplicate(allVideos, seen["videos"])
  IN  IF sourceFilter = "openverse" THEN Ok(<<>>, 0, <<>>, seen)
      ELSE IF KeyMissing(pixabayApiKey) /\ sourceFilter = "pixabay"
      THEN Throw(KeyError, <<>>, seen)
      ELSE IF px.kind # "ok"
      THEN Throw(ProviderError(px, "videos from Pixabay"), http, seen)
      ELSE Ok(dedup.items, CountOr(px.count, Len(dedup.items)), http,
              [seen EXCEPT !["videos"] = dedup.seen])

\* seen is the three refs (seenImageIdsRef, seenAudioIdsRef, seenVideoIdsRef);
\* the append argument is not read anywhere in the function body
fetchMedia(type, page, query, exactPhrase, excludeWords, licenseFilter, sortBy, sourceFilter, pixabayApiKey, seen, ov, px) ==
  LET q == SearchQuery(query, exactPhrase)
  IN  IF EmptyQuery(query) THEN Ok(<<>>, 0, <<>>, seen)
      ELSE IF type = "images"
      THEN FetchImages(page, q, excludeWords, licenseFilter, sortBy, sourceFilter,
                       pixabayApiKey, seen, ov, px)
      ELSE IF type = "audio"
      THEN FetchAudio(page, q, excludeWords, licenseFilter, sortBy, sourceFilter,
                      seen, ov)
      ELSE FetchVideos(page, q, excludeWords, sortBy, sourceFilter, pixabayApiKey,
                       seen, px)

\* ------------------------------------------------------------------------
\* Input domains of the exploration
\* ------------------------------------------------------------------------
SeqsUpTo(S, n) == UNION {[1..k -> S] : k \in 0..n}

\* Openverse results: one whose title matches an exclusion term only through
\* lower-casing and that has no tags; one whose title and license fields
\* are missing and whose tag matches where the title does not; one that
\* repeats the first one's id under another title and license, which no
\* exclusion term of ExcludeChoices matches.
OvPool ==
  {OvItem("1", <<"A">>, "by", <<>>),
   OvItem("2", <<>>, "", <<<<"a">>>>),
   OvItem("1", <<"e">>, "cc0", <<>>)}

\* Pixabay hits: a comma-joined tag string, and a hit without tags.
PxPool ==
  {PxHit("1", TRUE, <<"a", ",", " ", "B">>),
   PxHit("2", FALSE, <<>>)}

Failures == {Response("neterr", <<>>, 0), Response("status", <<>>, 0)}

\* the successful responses over a pool of results and a set of count fields
OkResponses(pool, counts) ==
  {Response("ok", r, c) : r \in SeqsUpTo(pool, MaxResults), c \in counts}

\* the response slot of a provider the call does not reach
NoResponse == Response("none", <<>>, 0)

Queries == {<<>>, <<" ">>, <<"q">>}
ExactPhrases == {<<>>, <<"x">>}
ExcludeChoices == {<<>>, <<"A">>, <<" ", "B", " ", " ", "d">>}
LicenseFilters == {"all", "by"}
ApiKeys == {Undefined, "", "mock-pixabay-key"}

\* ------------------------------------------------------------------------
\* State
\* ------------------------------------------------------------------------
VARIABLES
  pixabayApiKey,  \* process.env.NEXT_PUBLIC_PIXABAY_API_KEY
  seenIds,        \* seenImageIdsRef, seenAudioIdsRef, seenVideoIdsRef
  results,        \* imageResults, audioResults, videoResults
  pageNo,         \* imagePage, audioPage, videoPage
  totals,         \* imageTotal, audioTotal, videoTotal: <<>> is null
  hasFetched,     \* hasFetchedImages, hasFetchedAudio, hasFetchedVideos
  activeTab,      \* activeTab
  loading,        \* loading
  error,          \* error: "" is null
  filters,        \* query, exactPhrase, excludeWords, licenseFilter, sortBy, sourceFilter
  lastQuery,      \* lastQuery: <<>> is null
  inflight,       \* the fetchMedia calls that were issued and have not settled
  issued,         \* how many fetchMedia calls the page has issued
  last,           \* the last call of fetchMedia that settled, with its outcome
  users,          \* the rows of the User table
  registrations,  \* the calls of registerUser in the order they began
  probe,          \* a call of fetchSize: its url, requests, responses and result
  selectedItem,   \* selectedItem: <<>> is null
  modalType,      \* modalType: <<>> is null
  relatedItems,   \* relatedItems
  relatedPage,    \* relatedPage
  relatedTotal,   \* relatedTotal: <<>> is null
  relatedLoading, \* relatedLoading
  relatedInflight \* the calls of fetchRelatedItems that await their response

vars == <<pixabayApiKey, seenIds, results, pageNo, totals, hasFetched, activeTab,
          loading, error, filters, lastQuery, inflight, issued, last, users,
          registrations, probe, selectedItem, modalType, relatedItems,
          relatedPage, relatedTotal, relatedLoading, relatedInflight>>

modalVars == <<selectedItem, modalType, relatedItems, relatedPage, relatedTotal,
               relatedLoading, relatedInflight>>

sizeVars == <<probe>>

authVars == <<users, registrations>>

pageVars == <<results, pageNo, totals, hasFetched, activeTab, loading, error,
              filters, lastQuery, inflight, issued>>

Null == <<>>

Filters(q, ep, ew, lf, sb, sf) ==
  [exactPhrase |-> ep, excludeWords |-> ew, licenseFilter |-> lf, query |-> q,
   sortBy |-> sb, sourceFilter |-> sf]

DefaultFilters == Filters(<<>>, <<>>, <<>>, "all", "relevance", "all")

\* the record of one fetchMedia call: arguments, provider responses, the
\* Seen-ID sets before and after, and the outcome
CallRecord(type, page, f, append, ov, px, before, out, repeat) ==
  [append |-> append, args |-> f, called |-> TRUE, ov |-> ov, page |-> page,
   px |-> px, repeat |-> repeat, result |-> out, seenAfter |-> out.seen,
   seenBefore |-> before, type |-> type]

NoCall ==
  [append |-> FALSE, args |-> DefaultFilters, called |-> FALSE, ov |-> NoResponse,
   page |-> 1, px |-> NoResponse, repeat |-> FALSE,
   result |-> Ok(<<>>, 0, <<>>, [t \in Types |-> {}]),
   seenAfter |-> [t \in Types |-> {}], seenBefore |-> [t \in Types |-> {}],
   type |-> "images"]

\* the call's outcome under the configured key and the current refs
Outcome(type, page, f, ov, px) ==
  fetchMedia(type, page, f.query, f.exactPhrase, f.excludeWords, f.licenseFilter,
             f.sortBy, f.sourceFilter, pixabayApiKey, seenIds, ov, px)

\* whether a call with these arguments issues the request to a provider
CallsOpenverse(type, f) ==
  /\ Trim(f.query) # <<>>
  /\ \/ type = "images" /\ f.sourceFilter \in {"all", "openverse"}
     \/ type = "audio" /\ f.sourceFilter # "pixabay"

CallsPixabay(type, f) ==
  /\ Trim(f.query) # <<>>
  /\ \/ /\ type = "images"
        /\ f.sourceFilter \in {"all", "pixabay"}
        /\ ~KeyMissing(pixabayApiKey)
     \/ /\ type = "videos"
        /\ f.sourceFilter # "openverse"
        /\ ~(KeyMissing(pixabayApiKey) /\ f.sourceFilter = "pixabay")

\* the responses a call can meet: one per request it issues
OvChoices(type, f, responses) ==
  IF CallsOpenverse(type, f) THEN responses ELSE {NoResponse}
PxChoices(type, f, responses) ==
  IF CallsPixabay(type, f) THEN responses ELSE {NoResponse}

\* ------------------------------------------------------------------------
\* fetchSize (src/app/search/page.tsx 57-103)
\* ------------------------------------------------------------------------
\* A header is Null when the response does not carry it (headers.get gives
\* null) and <<s>> when it carries the text s.  A size is NoSize (undefined),
\* <<n>> (a number) or NaN.
NaN == <<"NaN">>

Digits == <<"0", "1", "2", "3", "4", "5", "6", "7", "8", "9">>

IsDigit(c) == \E d \in 1..10 : Digits[d] = c

DigitValue(c) == (CHOOSE d \in 1..10 : Digits[d] = c) - 1

\* the longest prefix of digits
RECURSIVE DigitPrefix(_)
DigitPrefix(text) ==
  IF text = <<>> \/ ~IsDigit(Head(text)) THEN <<>>
  ELSE <<Head(text)>> \o DigitPrefix(Tail(text))

RECURSIVE DecimalValue(_, _)
DecimalValue(digits, acc) ==
  IF digits = <<>> THEN acc
  ELSE DecimalValue(Tail(digits), 10 * acc + DigitValue(Head(digits)))

\* parseInt(text, 10): leading white space is skipped, a sign is read, then
\* the digits up to the first other character; NaN when there is no digit
ParseInt(text) ==
  LET body == TrimStart(text)
      signed == body # <<>> /\ Head(body) \in {"+", "-"}
      digits == DigitPrefix(IF signed THEN Tail(body) ELSE body)
  IN  IF digits = <<>> THEN NaN
      ELSE IF signed /\ Head(body) = "-" THEN <<0 - DecimalValue(digits, 0)>>
      ELSE <<DecimalValue(digits, 0)>>

\* a header value in a condition: null and '' are falsy
Truthy(header) == header # Null /\ header[1] # <<>>

\* size ? parseInt(size, 10) : undefined
HeaderSize(header) == IF Truthy(header) THEN ParseInt(header[1]) ELSE NoSize

\* the digits that /\/(\d+)$/ captures: those behind the last slash when
\* they are one or more digits and nothing else; <<>> when nothing matches
RECURSIVE AfterLastSlash(_, _, _)
AfterLastSlash(text, seen, acc) ==
  IF text = <<>> THEN (IF seen THEN acc ELSE <<>>)
  ELSE IF Head(text) = "/" THEN AfterLastSlash(Tail(text), TRUE, <<>>)
  ELSE AfterLastSlash(Tail(text), seen, Append(acc, Head(text)))

RangeMatch(text) ==
  LET tail == AfterLastSlash(text, FALSE, <<>>)
  IN  IF tail # <<>> /\ DigitPrefix(tail) = tail THEN tail ELSE <<>>

\* match ? parseInt(match[1], 10) : undefined
RangeSize(header) ==
  IF RangeMatch(header[1]) # <<>> THEN ParseInt(RangeMatch(header[1])) ELSE NoSize

\* what a request of the probe meets: fetch rejects ("throw"), or a response
\* with a non-success status ("status") or a success status ("ok") and its
\* Content-Length and Content-Range headers
ProbeResponse(kind, contentLength, contentRange) ==
  [contentLength |-> contentLength, contentRange |-> contentRange, kind |-> kind]

NoProbeResponse == ProbeResponse("none", Null, Null)

\* the url argument is refused before any request
InvalidUrl(url) ==
  \/ url = Null
  \/ url[1] = <<>>
  \/ Len(url[1]) < 4
  \/ SubSeq(url[1], 1, 4) # <<"h", "t", "t", "p">>

\* the first try block returns from fetchSize: it does when the HEAD
\* response is ok, whatever its headers hold
HeadReturns(response) == response.kind = "ok"

\* the size the first try block returns
HeadSize(response) == HeaderSize(response.contentLength)

\* the size fetchSize returns after the range GET settled
GetSize(response) ==
  IF response.kind # "ok" THEN NoSize
  ELSE IF Truthy(response.contentRange) THEN RangeSize(response.contentRange)
  ELSE HeaderSize(response.contentLength)

GetOutcome_Uncaught(response) ==
  IF response.kind = "throw" THEN "thrown" ELSE "returned"

\* how fetchSize ends after the range GET settled: a rejected fetch is
\* caught and logged, and the function returns
GetOutcome(response) == "returned"

\* a call of fetchSize: pc is "idle" before the call, "head" and "get" while
\* a request is awaited, "returned" or "thrown" when the call is over and
\* "mapped" when the caller has built its item
Probe(url, pc, requests, headResponse, getResponse, size) ==
  [getResponse |-> getResponse, headResponse |-> headResponse, pc |-> pc,
   requests |-> requests, size |-> size, url |-> url]

NoProbe == Probe(Null, "idle", <<>>, NoProbeResponse, NoProbeResponse, NoSize)

PageInit ==
  /\ results = [t \in Types |-> <<>>]
  /\ pageNo = [t \in Types |-> 1]
  /\ totals = [t \in Types |-> Null]
  /\ hasFetched = [t \in Types |-> FALSE]
  /\ activeTab = "images"
  /\ loading = FALSE
  /\ error = ""
  /\ lastQuery = Null
  /\ inflight = {}
  /\ issued = 0
  /\ users = {}
  /\ registrations = <<>>
  /\ probe = NoProbe
  /\ selectedItem = Null
  /\ modalType = Null
  /\ relatedItems = <<>>
  /\ relatedPage = 1
  /\ relatedTotal = Null
  /\ relatedLoading = FALSE
  /\ relatedInflight = <<>>

\* ------------------------------------------------------------------------
\* fetchMedia called directly on the three refs, as the unit tests do
\* ------------------------------------------------------------------------
\* keys a session may already hold when the call is made
SeenChoices == {{}, {"openverse-1", "pixabay-7"}}

\* one call of fetchMedia
Call(type, page, f, ov, px) ==
  /\ \E out \in {Outcome(type, page, f, ov, px)} :
         /\ seenIds' = out.seen
         /\ last' = CallRecord(type, page, f, page > 1, ov, px, seenIds, out, FALSE)
  /\ UNCHANGED <<pixabayApiKey, pageVars, authVars, sizeVars, modalVars>>

\* the same call again, answered with the same provider responses
Repeat ==
  /\ last.called
  /\ ~last.repeat
  /\ \E out \in {Outcome(last.type, last.page, last.args, last.ov, last.px)} :
         /\ seenIds' = out.seen
         /\ last' = CallRecord(last.type, last.page, last.args, last.append, last.ov,
                               last.px, seenIds, out, TRUE)
  /\ UNCHANGED <<pixabayApiKey, pageVars, authVars, sizeVars, modalVars>>

\* SpecFetch: every media type, source selection, key configuration, query
\* and request shape, every failure and count field of the responses, with
\* a reduced set of post-processing settings and results of distinct ids
CallSortKeys == {"relevance", "title-asc"}
CallExcludes == {<<>>, <<"A">>}
CallOvResponses ==
  Failures \cup OkResponses({r \in OvPool : r.title # <<"e">>}, {0, 3})
CallPxResponses == Failures \cup OkResponses(PxPool, {0, 5})

InitFetch ==
  /\ pixabayApiKey \in ApiKeys
  /\ \E s \in SeenChoices : seenIds = [t \in Types |-> s]
  /\ filters = DefaultFilters
  /\ PageInit
  /\ last = NoCall

CallAny ==
  /\ ~last.called
  /\ \E type \in Types, page \in {1, 2}, q \in Queries, ep \in ExactPhrases,
        ew \in CallExcludes, lf \in LicenseFilters, sb \in CallSortKeys,
        sf \in SourceFilters :
       \E ov \in OvChoices(type, Filters(q, ep, ew, lf, sb, sf), CallOvResponses),
          px \in PxChoices(type, Filters(q, ep, ew, lf, sb, sf), CallPxResponses) :
         Call(type, page, Filters(q, ep, ew, lf, sb, sf), ov, px)

NextFetch == CallAny

SpecFetch == InitFetch /\ [][NextFetch]_vars

\* SpecPost: every post-processing setting (exclusion words, license filter,
\* sort key, source selection) on every response, repeated ids included,
\* with the key configured, a plain query and refs that already hold keys;
\* each call is then repeated
PostOvResponses == Failures \cup OkResponses(OvPool, {3})
PostPxResponses == Failures \cup OkResponses(PxPool, {5})

InitPost ==
  /\ pixabayApiKey = "mock-pixabay-key"
  /\ seenIds = [t \in Types |-> {"openverse-1", "pixabay-7"}]
  /\ filters = DefaultFilters
  /\ PageInit
  /\ last = NoCall

CallPost ==
  /\ ~last.called
  /\ \E type \in Types, ew \in ExcludeChoices, lf \in LicenseFilters,
        sb \in SortKeys, sf \in SourceFilters :
       \E ov \in OvChoices(type, Filters(<<"q">>, <<>>, ew, lf, sb, sf), PostOvResponses),
          px \in PxChoices(type, Filters(<<"q">>, <<>>, ew, lf, sb, sf), PostPxResponses) :
         Call(type, 1, Filters(<<"q">>, <<>>, ew, lf, sb, sf), ov, px)

NextPost == CallPost \/ Repeat

SpecPost == InitPost /\ [][NextPost]_vars

\* ------------------------------------------------------------------------
\* The search page: state, effects, handlers and the fetches in flight
\* ------------------------------------------------------------------------
\* the values of the URL parameter q
PageQueries == {<<"q">>, <<"r">>}

\* what a provider answers to the request for a page: a failure, the result
\* that stands on that page, or the result of page 1 once more (rankings
\* shift between requests); the count field promises further pages
PageIds == <<"1", "2", "3", "4", "5">>

PageOvResponses(page) ==
  {Response("neterr", <<>>, 0)} \cup
  {Response("ok", <<OvItem(id, <<"A">>, "by", <<>>)>>, 3) : id \in {"1", PageIds[page]}}

PagePxResponses(page) ==
  {Response("status", <<>>, 0)} \cup
  {Response("ok", <<PxHit(id, TRUE, <<"a", ",", " ", "B">>)>>, 5) : id \in {"1", PageIds[page]}}

\* a call of fetchMediaCallback that has not settled: the function that
\* awaits it, and the type, page and filter values of its closure.  Calls of
\* fetchInitial or of fetchTabData with the same closure values are held once
\* (call 0); a call of handleLoadMore carries the number of the call, so that
\* two clicks on Load More are two calls.
Fetch(kind, type, page, f) ==
  [args |-> f, call |-> 0, kind |-> kind, page |-> page, type |-> type]

\* the calls fetchInitial and fetchTabData start when the two effects run with
\* query f.query, tab and flags fetched in their closure (lastQuery = query)
EffectFetches(tab, f, fetched) ==
  IF f.query = <<>> \/ fetched[tab] THEN {}
  ELSE {Fetch("initial", tab, 1, f), Fetch("tab", tab, 1, f)}

NoneFetched == [t \in Types |-> FALSE]

Init ==
  /\ pixabayApiKey = "mock-pixabay-key"
  /\ seenIds = [t \in Types |-> {}]
  /\ filters = DefaultFilters
  /\ PageInit
  /\ last = NoCall

ClearedSeen_Kept == seenIds

\* the three refs after seenImageIdsRef.current.clear() and its two siblings
ClearedSeen == [t \in Types |-> {}]

\* the URL parameter q changes: the query effect resets the page when
\* lastQuery differs, and both effects run again after the reset's render
Navigate(q) ==
  /\ q # filters.query
  /\ issued + 2 <= MaxFetches
  /\ filters' = [filters EXCEPT !.query = q]
  /\ IF q = <<>>
     THEN UNCHANGED <<seenIds, results, pageNo, totals, hasFetched, loading, error,
                      lastQuery, inflight, issued>>
     ELSE IF lastQuery # q
     THEN /\ pageNo' = [t \in Types |-> 1]
          /\ results' = [t \in Types |-> <<>>]
          /\ totals' = [t \in Types |-> Null]
          /\ hasFetched' = NoneFetched
          /\ error' = ""
          /\ seenIds' = ClearedSeen
          /\ lastQuery' = q
          /\ loading' = TRUE
          /\ inflight' = inflight \cup EffectFetches(activeTab, filters', NoneFetched)
          /\ issued' = issued + 2
     ELSE /\ loading' = (loading \/ ~hasFetched[activeTab])
          /\ inflight' = inflight \cup EffectFetches(activeTab, filters', hasFetched)
          /\ issued' = issued + Cardinality(EffectFetches(activeTab, filters', hasFetched))
          /\ UNCHANGED <<seenIds, results, pageNo, totals, hasFetched, error, lastQuery>>
  /\ UNCHANGED <<pixabayApiKey, activeTab, last, authVars, sizeVars, modalVars>>

\* TabNavigation: the tab changes and both effects run for the new tab
setActiveTab(tab) ==
  /\ tab # activeTab
  /\ issued + 2 <= MaxFetches
  /\ activeTab' = tab
  /\ loading' = (loading \/ EffectFetches(tab, filters, hasFetched) # {})
  /\ inflight' = inflight \cup EffectFetches(tab, filters, hasFetched)
  /\ issued' = issued + Cardinality(EffectFetches(tab, filters, hasFetched))
  /\ UNCHANGED <<pixabayApiKey, seenIds, results, pageNo, totals, hasFetched, error,
                 filters, lastQuery, last, authVars, sizeVars, modalVars>>

\* the calls the effects start after handleSearch's updates are rendered, the
\* URL still holding the query it held: the query effect runs again when
\* lastQuery or a fetched flag changed (and once more after it set lastQuery
\* back to the URL's query), the tab effect when a fetched flag changed
SearchFetches(input) ==
  IF filters.query = <<>> THEN {}
  ELSE (IF lastQuery # input \/ hasFetched # NoneFetched
        THEN {Fetch("initial", activeTab, 1, filters)} ELSE {}) \cup
       (IF hasFetched # NoneFetched
        THEN {Fetch("tab", activeTab, 1, filters)} ELSE {})

\* handleSearch from the return of saveSearch on, the form holding input:
\* router.push asks for the new URL (which arrives as a later Navigate), the
\* page is reset and lastQuery set to the input; the query effect then sets
\* lastQuery to the URL's query when that is not empty and differs
handleSearch(input) ==
  /\ input # <<>>
  /\ issued + 2 <= MaxFetches
  /\ pageNo' = [t \in Types |-> 1]
  /\ results' = [t \in Types |-> <<>>]
  /\ totals' = [t \in Types |-> Null]
  /\ hasFetched' = NoneFetched
  /\ error' = ""
  /\ seenIds' = ClearedSeen
  /\ lastQuery' = IF filters.query = <<>> THEN input ELSE filters.query
  /\ loading' = (loading \/ SearchFetches(input) # {})
  /\ inflight' = inflight \cup SearchFetches(input)
  /\ issued' = issued + Cardinality(SearchFetches(input))
  /\ UNCHANGED <<pixabayApiKey, activeTab, filters, last, authVars, sizeVars, modalVars>>

\* MediaResults shows the Load More button of the active tab, enabled
LoadMoreEnabled(type) ==
  /\ activeTab = type
  /\ ~(loading /\ results[type] = <<>>)
  /\ error = ""
  /\ results[type] # <<>>
  /\ totals[type] # Null
  /\ Len(results[type]) < totals[type][1]
  /\ ~loading

\* handleLoadMore up to its await
handleLoadMore(type) ==
  /\ LoadMoreEnabled(type)
  /\ pageNo[type] + 1 <= MaxPage
  /\ issued + 1 <= MaxFetches
  /\ loading' = TRUE
  /\ inflight' = inflight \cup
       {[Fetch("more", type, pageNo[type] + 1, filters) EXCEPT !.call = issued + 1]}
  /\ issued' = issued + 1
  /\ UNCHANGED <<pixabayApiKey, seenIds, results, pageNo, totals, hasFetched,
                 activeTab, error, filters, lastQuery, last, authVars, sizeVars, modalVars>>

SettleResults_DropOnError(f, out) ==
  IF out.status # "ok" THEN [results EXCEPT ![f.type] = <<>>]
  ELSE IF f.kind = "more"
  THEN [results EXCEPT ![f.type] = results[f.type] \o out.items]
  ELSE [results EXCEPT ![f.type] = out.items]

\* the result lists after the awaiting function ran on: a rejected call
\* jumps to the catch block past every setXResults
SettleResults(f, out) ==
  IF out.status # "ok" THEN results
  ELSE IF f.kind = "more"
  THEN [results EXCEPT ![f.type] = results[f.type] \o out.items]
  ELSE [results EXCEPT ![f.type] = out.items]

\* an awaited fetchMediaCallback settles: fetchMedia finishes on the refs as
\* they are now and the awaiting function runs on: fetchInitial and
\* fetchTabData replace the list, handleLoadMore appends to it; the effects
\* run again when a fetched flag changed
Settle(f, ov, px) ==
  \E out \in {Outcome(f.type, f.page, f.args, ov, px)} :
  LET ok == out.status = "ok"
      more == f.kind = "more"
      fetched == IF ok /\ ~more THEN [hasFetched EXCEPT ![f.type] = TRUE]
                 ELSE hasFetched
      started == IF fetched # hasFetched
                 THEN EffectFetches(activeTab, filters, fetched) ELSE {}
  IN  /\ seenIds' = out.seen
      /\ results' = SettleResults(f, out)
      /\ totals' = IF ok /\ ~more THEN [totals EXCEPT ![f.type] = <<out.total>>]
                   ELSE totals
      /\ pageNo' = IF ok /\ more THEN [pageNo EXCEPT ![f.type] = f.page] ELSE pageNo
      /\ hasFetched' = fetched
      /\ error' = IF ok THEN error ELSE out.error
      /\ loading' = (started # {})
      /\ inflight' = (inflight \ {f}) \cup started
      /\ issued' = issued + Cardinality(started)
      /\ last' = CallRecord(f.type, f.page, f.args, f.kind = "more", ov, px,
                             seenIds, out, FALSE)
      /\ UNCHANGED <<pixabayApiKey, activeTab, filters, lastQuery, authVars, sizeVars, modalVars>>

SettleAny ==
  \E f \in inflight :
    \E ov \in OvChoices(f.type, f.args, PageOvResponses(f.page)),
       px \in PxChoices(f.type, f.args, PagePxResponses(f.page)) :
      Settle(f, ov, px)

Next ==
  \/ \E q \in PageQueries : Navigate(q)
  \/ \E tab \in Types : setActiveTab(tab)
  \/ \E type \in Types : handleLoadMore(type)
  \/ \E input \in PageQueries : handleSearch(input)
  \/ SettleAny

Spec == Init /\ [][Next]_vars

\* ------------------------------------------------------------------------
\* registerUser (src/app/auth/signup/actions.ts)
\* ------------------------------------------------------------------------
\* A form field is Null when the form has no such entry (formData.get gives
\* null) and <<s>> when it holds the string s.
Names == {Null, <<"">>, <<"Test User">>}
Emails == {<<"">>, <<"a@example.com">>, <<"b@example.com">>}
Passwords == {Null, <<"password">>}

\* !value of a form field
Falsy(value) == value = Null \/ value = <<"">>

\* bcrypt.hash(password, 10)
Hash(password) == "$2a$10$" \o password

\* prisma.user.findUnique({ where: { email } }) on the table as it is
FindUnique(email) == {u \in users : u.email = email}

User(name, email, hashedPassword) ==
  [email |-> email, name |-> name, password |-> hashedPassword]

\* a call of registerUser: its form fields, the await it stands at (pc), how
\* often it has called findUnique, bcrypt.hash and create, the error it threw
\* ("" is none), and whether its email was in the table when it began
Registration(name, email, password, pc, lookups, hashes, creates, message, registered) ==
  [creates |-> creates, email |-> email, error |-> message, hashes |-> hashes,
   lookups |-> lookups, name |-> name, password |-> password, pc |-> pc,
   registered |-> registered]

MissingField_NameOptional(name, email, password) == Falsy(email) \/ Falsy(password)

\* if (!name || !email || !password)
MissingField(name, email, password) == Falsy(name) \/ Falsy(email) \/ Falsy(password)

\* registerUser up to its first await: the check of the fields, then the
\* call of findUnique
registerUser(name, email, password) ==
  /\ Len(registrations) < MaxRegistrations
  /\ registrations' = Append(registrations,
       IF MissingField(name, email, password)
       THEN Registration(name, email, password, "thrown", 0, 0, 0,
                         "All fields are required",
                         ~Falsy(email) /\ FindUnique(email[1]) # {})
       ELSE Registration(name, email, password, "findUnique", 1, 0, 0, "",
                         FindUnique(email[1]) # {}))
  /\ UNCHANGED <<pixabayApiKey, seenIds, last, pageVars, users, sizeVars, modalVars>>

\* findUnique resolves: an existing user throws, none calls bcrypt.hash
FoundUnique(i) ==
  /\ registrations[i].pc = "findUnique"
  /\ registrations' = [registrations EXCEPT ![i] =
       IF FindUnique(registrations[i].email[1]) # {}
       THEN [@ EXCEPT !.pc = "thrown", !.error = "User already exists"]
       ELSE [@ EXCEPT !.pc = "hash", !.hashes = 1]]
  /\ UNCHANGED <<pixabayApiKey, seenIds, last, pageVars, users, sizeVars, modalVars>>

\* bcrypt.hash resolves and registerUser calls create
Hashed(i) ==
  /\ registrations[i].pc = "hash"
  /\ registrations' = [registrations EXCEPT ![i] =
       [@ EXCEPT !.pc = "create", !.creates = 1]]
  /\ UNCHANGED <<pixabayApiKey, seenIds, last, pageVars, users, sizeVars, modalVars>>

\* create settles: email is @unique in the schema, so a row with the email
\* makes the store reject the insert and registerUser rejects with its error
Created(i) ==
  /\ registrations[i].pc = "create"
  /\ IF FindUnique(registrations[i].email[1]) # {}
     THEN /\ registrations' = [registrations EXCEPT ![i] =
               [@ EXCEPT !.pc = "thrown",
                         !.error = "Unique constraint failed on the fields: (email)"]]
          /\ users' = users
     ELSE /\ registrations' = [registrations EXCEPT ![i] = [@ EXCEPT !.pc = "returned"]]
          /\ users' = users \cup {User(registrations[i].name[1], registrations[i].email[1],
                                        Hash(registrations[i].password[1]))}
  /\ UNCHANGED <<pixabayApiKey, seenIds, last, pageVars, sizeVars, modalVars>>

InitAuth ==
  /\ pixabayApiKey = "mock-pixabay-key"
  /\ seenIds = [t \in Types |-> {}]
  /\ filters = DefaultFilters
  /\ PageInit
  /\ last = NoCall

NextAuth ==
  \/ \E name \in Names, email \in Emails, password \in Passwords :
       registerUser(name, email, password)
  \/ \E i \in 1..Len(registrations) : FoundUnique(i)
  \/ \E i \in 1..Len(registrations) : Hashed(i)
  \/ \E i \in 1..Len(registrations) : Created(i)

SpecAuth == InitAuth /\ [][NextAuth]_vars

\* ------------------------------------------------------------------------
\* The size probe as the item mapping calls it (src/tt.tsx 477-497)
\* ------------------------------------------------------------------------
Urls == {Null, <<<<>>>>, <<<<"f", "t", "p", ":", "a">>>>, <<<<"h", "t", "t", "p", ":", "a">>>>,
         <<<<"h", "t", "t", "p", "s", ":", "b">>>>}

ContentLengths == {Null, <<<<>>>>, <<<<"7">>>>, <<<<"1", "2", "p", "x">>>>, <<<<"a">>>>}

ContentRanges ==
  {Null, <<<<"b", "y", "t", "e", "s", " ", "0", "-", "0", "/", "9">>>>,
   <<<<"b", "y", "t", "e", "s", " ", "0", "-", "0", "/", "*">>>>}

HeadResponses ==
  {ProbeResponse("throw", Null, Null), ProbeResponse("status", Null, Null)} \cup
  {ProbeResponse("ok", cl, Null) : cl \in ContentLengths}

GetResponses ==
  {ProbeResponse("throw", Null, Null), ProbeResponse("status", Null, Null)} \cup
  {ProbeResponse("ok", cl, cr) : cl \in ContentLengths, cr \in ContentRanges}

\* fetchSize up to its first await: an invalid url returns undefined, any
\* other issues the HEAD request
fetchSize(url) ==
  /\ probe.pc = "idle"
  /\ probe' = IF InvalidUrl(url)
              THEN Probe(url, "returned", <<>>, NoProbeResponse, NoProbeResponse, NoSize)
              ELSE Probe(url, "head", <<"HEAD">>, NoProbeResponse, NoProbeResponse, NoSize)
  /\ UNCHANGED <<pixabayApiKey, seenIds, last, pageVars, authVars, modalVars>>

\* the HEAD request settles: the first try block returns, or the function
\* goes on to the second and issues the range GET
HeadSettles(response) ==
  /\ probe.pc = "head"
  /\ probe' = IF HeadReturns(response)
              THEN [probe EXCEPT !.headResponse = response, !.pc = "returned",
                                 !.size = HeadSize(response)]
              ELSE [probe EXCEPT !.headResponse = response, !.pc = "get",
                                 !.requests = Append(@, "GET")]
  /\ UNCHANGED <<pixabayApiKey, seenIds, last, pageVars, authVars, modalVars>>

\* the range GET settles
GetSettles(response) ==
  /\ probe.pc = "get"
  /\ probe' = [probe EXCEPT !.getResponse = response, !.pc = GetOutcome(response),
                            !.size = GetSize(response)]
  /\ UNCHANGED <<pixabayApiKey, seenIds, last, pageVars, authVars, modalVars>>

\* the mapping resumes behind await fetchSize(item.url): its own catch sets
\* size undefined, and the item is built with the size
MapItem ==
  /\ probe.pc \in {"returned", "thrown"}
  /\ probe' = [probe EXCEPT !.pc = "mapped",
                            !.size = IF probe.pc = "thrown" THEN NoSize ELSE @]
  /\ UNCHANGED <<pixabayApiKey, seenIds, last, pageVars, authVars, modalVars>>

InitSize == InitAuth

NextSize ==
  \/ \E url \in Urls : fetchSize(url)
  \/ \E response \in HeadResponses : HeadSettles(response)
  \/ \E response \in GetResponses : GetSettles(response)
  \/ MapItem

SpecSize == InitSize /\ [][NextSize]_vars

\* ------------------------------------------------------------------------
\* The detail modal and its related items (src/app/search/page.tsx 112-235)
\* ------------------------------------------------------------------------
relatedPerPage == 4

\* the fields of a MediaResult that fetchRelatedItems reads
RelatedItem(id, source, tags) == [id |-> id, source |-> source, tags |-> tags]

\* What the providers hold, in the order they answer a query. Five items
\* carry the tag "x", so that its matches fill one page and start a second;
\* one item has another first tag and one has no tags at all.
Catalog ==
  <<RelatedItem("a", "openverse", <<<<"x">>>>),
    RelatedItem("b", "openverse", <<<<"y">>, <<"x">>>>),
    RelatedItem("c", "openverse", <<<<"x">>>>),
    RelatedItem("d", "openverse", <<<<"x">>>>),
    RelatedItem("e", "openverse", <<<<"x">>>>),
    RelatedItem("n", "pixabay", <<>>)>>

HasTag(item, tag) == \E k \in 1..Len(item.tags) : item.tags[k] = tag

\* the items of a provider that a query for a tag matches
Matches(provider, q) ==
  LET Hit(r) == r.source = provider /\ HasTag(r, q)
  IN SelectSeq(Catalog, Hit)

\* page, page_size / per_page of the provider's answer
PageOf(matches, page) ==
  SubSeq(matches, (page - 1) * relatedPerPage + 1,
         IF page * relatedPerPage < Len(matches) THEN page * relatedPerPage
         ELSE Len(matches))

\* item.source === 'openverse' && activeTab === 'audio' ? 'audio'
\*   : activeTab === 'videos' ? 'videos' : 'images'
RelatedType(item) ==
  IF item.source = "openverse" /\ activeTab = "audio" THEN "audio"
  ELSE IF activeTab = "videos" THEN "videos" ELSE "images"

RelatedEndpointId == "4bc43a04-ef46-4544-a0c1-63c63f56e276"

\* the url of the request: the related endpoint of one fixed id, else a
\* search for the item's first tag at the item's own provider
RelatedRequest(item, page) ==
  IF item.source = "openverse" /\ activeTab = "audio" /\ item.id = RelatedEndpointId
  THEN [endpoint |-> "images/related", license |-> Null, page |-> 1,
        provider |-> "openverse", q |-> <<>>]
  ELSE [endpoint |-> RelatedType(item),
        license |-> IF filters.licenseFilter # "all" /\ item.source = "openverse"
                    THEN <<filters.licenseFilter>> ELSE Null,
        page |-> page, provider |-> item.source, q |-> item.tags[1]]

RelatedResponse(status, count, res) ==
  [count |-> count, results |-> res, status |-> status]

RelatedStatuses == {"ok", "error"}

\* the answer a request gets: a failure (the fetch rejects or the status is
\* not a success), or the page of the matches with their number
RelatedAnswer(request, status) ==
  IF status = "error" THEN RelatedResponse("error", 0, <<>>)
  ELSE RelatedResponse("ok", Len(Matches(request.provider, request.q)),
                       PageOf(Matches(request.provider, request.q), request.page))

\* a call of fetchRelatedItems that awaits its response
RelatedCall(append, item, request) ==
  [append |-> append, item |-> item, request |-> request]

\* related.filter((relatedItem) => relatedItem.id !== item.id)
FilteredRelated(related, item) ==
  LET Other(r) == r.id # item.id
  IN SelectSeq(related, Other)

\* fetchRelatedItems up to its await: an item without tags clears the list
\* and returns, any other sets relatedLoading and sends the request
fetchRelatedItems(item, page, append) ==
  IF item.tags = <<>>
  THEN /\ relatedItems' = <<>>
       /\ relatedTotal' = Null
       /\ UNCHANGED <<relatedLoading, relatedInflight>>
  ELSE /\ Len(relatedInflight) < MaxRelatedFetches
       /\ relatedLoading' = TRUE
       /\ relatedInflight' =
            Append(relatedInflight, RelatedCall(append, item, RelatedRequest(item, page)))
       /\ UNCHANGED <<relatedItems, relatedTotal>>

\* if (!selectedItem || !modalType) return null: the modal is on screen
ModalShown == selectedItem # Null /\ modalType # Null

\* relatedTotal !== null && relatedItems.length < relatedTotal
hasMoreRelated == relatedTotal # Null /\ Len(relatedItems) < relatedTotal[1]

\* the type MediaResults passes for the active tab
ModalTypeOf(tab) ==
  IF tab = "images" THEN "image" ELSE IF tab = "audio" THEN "audio" ELSE "video"

\* a result card is clicked; the modal's overlay covers the cards once it
\* is shown
openModal(item, type) ==
  /\ ~ModalShown
  /\ selectedItem' = <<item>>
  /\ modalType' = <<type>>
  /\ relatedPage' = 1
  /\ fetchRelatedItems(item, 1, FALSE)
  /\ UNCHANGED <<pixabayApiKey, seenIds, last, pageVars, authVars, sizeVars>>

closeModal ==
  /\ ModalShown
  /\ selectedItem' = Null
  /\ modalType' = Null
  /\ relatedItems' = <<>>
  /\ relatedPage' = 1
  /\ relatedTotal' = Null
  /\ UNCHANGED <<relatedLoading, relatedInflight>>
  /\ UNCHANGED <<pixabayApiKey, seenIds, last, pageVars, authVars, sizeVars>>

\* a card of the related grid is clicked
handleRelatedItemClick(item) ==
  /\ ModalShown
  /\ \E k \in 1..Len(relatedItems) : relatedItems[k] = item
  /\ selectedItem' = <<item>>
  /\ relatedPage' = 1
  /\ fetchRelatedItems(item, 1, FALSE)
  /\ UNCHANGED modalType
  /\ UNCHANGED <<pixabayApiKey, seenIds, last, pageVars, authVars, sizeVars>>

\* the grid's button is rendered under a non-empty grid while hasMoreRelated
\* and is disabled while relatedLoading
handleLoadMoreRelated ==
  /\ ModalShown
  /\ relatedItems # <<>>
  /\ hasMoreRelated
  /\ ~relatedLoading
  /\ relatedPage < MaxRelatedPage
  /\ relatedPage' = relatedPage + 1
  /\ fetchRelatedItems(selectedItem[1], relatedPage + 1, TRUE)
  /\ UNCHANGED <<selectedItem, modalType>>
  /\ UNCHANGED <<pixabayApiKey, seenIds, last, pageVars, authVars, sizeVars>>

\* the call at position i resumes behind its await with the response
RelatedSettles(i, status) ==
  /\ relatedInflight' = SubSeq(relatedInflight, 1, i - 1) \o
                        SubSeq(relatedInflight, i + 1, Len(relatedInflight))
  /\ IF status = "ok"
     THEN \E response \in {RelatedAnswer(relatedInflight[i].request, status)} :
            /\ relatedTotal' = IF relatedInflight[i].append THEN relatedTotal
                               ELSE <<response.count>>
            /\ relatedItems' =
                 IF relatedInflight[i].append
                 THEN relatedItems \o
                      FilteredRelated(response.results, relatedInflight[i].item)
                 ELSE FilteredRelated(response.results, relatedInflight[i].item)
            /\ error' = error
     ELSE /\ relatedItems' = <<>>
          /\ relatedTotal' = Null
          /\ error' = "Failed to fetch related items"
  /\ relatedLoading' = FALSE
  /\ UNCHANGED <<selectedItem, modalType, relatedPage>>
  /\ UNCHANGED <<pixabayApiKey, seenIds, last, results, pageNo, totals, hasFetched,
                 activeTab, loading, filters, lastQuery, inflight, issued, authVars,
                 sizeVars>>

\* any of the calls in flight settles, in any order
RelatedSettlesAny ==
  \E i \in 1..Len(relatedInflight) :
    \E status \in RelatedStatuses : RelatedSettles(i, status)

InitModal == InitAuth

NextModal ==
  \/ \E k \in 1..Len(Catalog) : openModal(Catalog[k], ModalTypeOf(activeTab))
  \/ closeModal
  \/ \E k \in 1..Len(Catalog) : handleRelatedItemClick(Catalog[k])
  \/ handleLoadMoreRelated
  \/ RelatedSettlesAny

SpecModal == InitModal /\ [][NextModal]_vars

\* ------------------------------------------------------------------------
\* Properties
\* ------------------------------------------------------------------------
FailKinds == {"neterr", "status"}

Range(seq) == {seq[i] : i \in 1..Len(seq)}

\* the last call ran with a query that is not empty after trimming
Searched == last.called /\ Trim(last.args.query) # <<>>

OvFailed == last.ov.kind \in FailKinds
PxFailed == last.px.kind \in FailKinds

\* C1, as stated: the accumulated result list of a media type never holds
\* two items with the same composite key source-id, over the initial page
\* and any number of load-more pages of one query session.
C1_NoDuplicateKeys ==
  \A t \in Types :
    \A i, j \in 1..Len(results[t]) :
      i # j => Key(results[t][i]) # Key(results[t][j])

\* a load-more settled and left a list of distinct keys
C1_Witness ==
  \E t \in Types :
    /\ pageNo[t] = 2
    /\ Len(results[t]) >= 2
    /\ Cardinality(Keys(results[t])) = Len(results[t])

\* C2: when the query is empty after trimming, fetchMedia returns exactly
\* {items: [], total: 0}, issues no HTTP call and leaves the three Seen-ID
\* sets unchanged, whatever the type, page, exactPhrase and filters.
C2_EmptyQuery ==
  (last.called /\ Trim(last.args.query) = <<>>) =>
    /\ last.result.status = "ok"
    /\ last.result.items = <<>>
    /\ last.result.total = 0
    /\ last.result.http = <<>>
    /\ last.seenAfter = last.seenBefore

\* a whitespace query with an exact phrase, page 2, Pixabay only and no key
C2_Witness ==
  /\ last.called
  /\ last.args.query = <<" ">>
  /\ last.args.exactPhrase = <<"x">>
  /\ last.type = "videos"
  /\ last.page = 2
  /\ last.args.sourceFilter = "pixabay"
  /\ KeyMissing(pixabayApiKey)
  /\ last.seenBefore["videos"] # {}

\* C3: for images with a non-empty query, when sourceFilter names one
\* provider and that provider's call fails (transport error or non-success
\* status), fetchMedia fails with that error and the Seen-ID sets are as
\* they were before the call.
C3_SoleProviderFails ==
  (Searched /\ last.type = "images") =>
    /\ (last.args.sourceFilter = "openverse" /\ OvFailed) =>
         /\ last.result.status = "error"
         /\ last.result.error = (IF last.ov.kind = "neterr" THEN "fetch failed"
                                 ELSE "Failed to fetch images from Openverse")
         /\ last.seenAfter = last.seenBefore
    /\ (last.args.sourceFilter = "pixabay" /\ PxFailed) =>
         /\ last.result.status = "error"
         /\ last.result.error = (IF last.px.kind = "neterr" THEN "fetch failed"
                                 ELSE "Failed to fetch images from Pixabay")
         /\ last.seenAfter = last.seenBefore

C3_Witness ==
  /\ Searched
  /\ last.type = "images"
  /\ last.args.sourceFilter = "openverse"
  /\ last.ov.kind = "status"
  /\ last.seenBefore["images"] # {}
  /\ last.result.status = "error"

\* the keys of a provider's raw results
RawKeys(source, resp) == {source \o "-" \o resp.results[i].id : i \in 1..Len(resp.results)}

\* the count a provider reports, or the number of results it returned when
\* it reports none
Reported(resp) == IF resp.count # 0 THEN resp.count ELSE Len(resp.results)

\* C4: for images with sourceFilter = all, when exactly one of the two
\* provider calls fails, fetchMedia raises no error, every returned item
\* comes from the surviving provider, total is the surviving provider's
\* reported count (its item count when it reports none), and only keys of
\* the surviving provider are added to the image Seen-ID set.
C4_PartialFailure ==
  (Searched /\ last.type = "images" /\ last.args.sourceFilter = "all") =>
    /\ (OvFailed /\ last.px.kind = "ok") =>
         /\ last.result.status = "ok"
         /\ \A x \in Range(last.result.items) : x.source = "pixabay"
         /\ last.result.total = Reported(last.px)
         /\ last.seenAfter["images"] \ last.seenBefore["images"]
              \subseteq RawKeys("pixabay", last.px)
    /\ (PxFailed /\ last.ov.kind = "ok") =>
         /\ last.result.status = "ok"
         /\ \A x \in Range(last.result.items) : x.source = "openverse"
         /\ last.result.total = Reported(last.ov)
         /\ last.seenAfter["images"] \ last.seenBefore["images"]
              \subseteq RawKeys("openverse", last.ov)

\* Pixabay fails, Openverse returns an item that is returned and recorded
C4_Witness ==
  /\ Searched
  /\ last.type = "images"
  /\ last.args.sourceFilter = "all"
  /\ PxFailed
  /\ last.ov.kind = "ok"
  /\ last.ov.count = 0
  /\ last.result.items # <<>>
  /\ last.seenAfter["images"] # last.seenBefore["images"]

\* the provider named by a sourceFilter that names exactly one
SoleFailed ==
  \/ last.args.sourceFilter = "openverse" /\ OvFailed
  \/ last.args.sourceFilter = "pixabay" /\ PxFailed

SoleKeyless ==
  /\ last.called
  /\ last.type \in {"images", "videos"}
  /\ last.args.sourceFilter = "pixabay"
  /\ pixabayApiKey \in {Undefined, ""}

KeyFailure ==
  /\ last.result.status = "error"
  /\ last.result.error = "Pixabay API key is not set"
  /\ last.result.http = <<>>
  /\ last.seenAfter = last.seenBefore

\* C6, as stated: when the Pixabay key is undefined or empty and
\* sourceFilter is exactly Pixabay, fetchMedia for images or videos fails
\* with 'Pixabay API key is not set', issues no HTTP call and leaves the
\* Seen-ID sets unchanged.
C6_KeylessFails == SoleKeyless => KeyFailure

\* C6, amended: the same, for a query that is not empty after trimming (an
\* empty query returns {items: [], total: 0} before the key is looked at).
C6_KeylessFailsOnSearch == (SoleKeyless /\ Searched) => KeyFailure

C6_Witness ==
  /\ SoleKeyless
  /\ Searched
  /\ pixabayApiKey = ""
  /\ last.type = "images"
  /\ last.seenBefore["images"] # {}
  /\ last.result.status = "error"

\* C7, as stated: whenever Pixabay is selected (sourceFilter all or pixabay)
\* and its key is missing or empty, no HTTP request goes to Pixabay, for
\* images and for videos alike, and with sourceFilter = all the missing key
\* does not fail the call.
C7_NoRequestWithoutKey ==
  (/\ last.called
   /\ last.type \in {"images", "videos"}
   /\ last.args.sourceFilter \in {"all", "pixabay"}
   /\ pixabayApiKey \in {Undefined, ""}) =>
    /\ \A r \in Range(last.result.http) : r.provider # "pixabay"
    /\ last.args.sourceFilter = "all" => last.result.error # "Pixabay API key is not set"

\* the image branch without a key under sourceFilter = all: Openverse alone
\* is asked and its items are returned
C7_Witness ==
  /\ Searched
  /\ last.type = "images"
  /\ last.args.sourceFilter = "all"
  /\ pixabayApiKey = Undefined
  /\ last.result.status = "ok"
  /\ last.result.items # <<>>
  /\ Len(last.result.http) = 1

\* C8, as stated: on a successful call total is, for images, the maximum of
\* the counts reported by the providers that were queried and succeeded, for
\* audio Openverse's reported count, for videos Pixabay's reported count (a
\* provider that reports none counts the items it returned); total is not
\* reduced by the exclusion filter, the license filter or deduplication.
C8_TotalFromProviderCounts ==
  (Searched /\ last.result.status = "ok") =>
    last.result.total =
      Max(IF last.ov.kind = "ok" THEN Reported(last.ov) ELSE 0,
          IF last.px.kind = "ok" THEN Reported(last.px) ELSE 0)

\* both providers report a count and an item is filtered out
C8_Witness ==
  /\ Searched
  /\ last.type = "images"
  /\ last.ov.kind = "ok" /\ last.ov.count = 3
  /\ last.px.kind = "ok" /\ last.px.count = 5
  /\ Len(last.result.items) < Len(last.ov.results) + Len(last.px.results)
  /\ last.result.total = 5

\* C9: after a successful call for media type T, T's Seen-ID set is its
\* previous contents united with the keys of exactly the returned items
\* (keys of items the exclusion or license filter dropped are not added),
\* the other two sets are untouched, and the same call repeated with the
\* same provider responses leaves the set unchanged.
C9_SeenIsUnionOfReturned ==
  (last.called /\ last.result.status = "ok") =>
    /\ last.seenAfter[last.type] =
         last.seenBefore[last.type] \cup Keys(last.result.items)
    /\ \A t \in Types \ {last.type} : last.seenAfter[t] = last.seenBefore[t]
    /\ last.repeat => last.seenAfter = last.seenBefore

\* a repeated call that returned an item while the filters dropped another,
\* on a set that held a key of another provider
C9_Witness ==
  /\ last.called
  /\ last.repeat
  /\ last.result.status = "ok"
  /\ last.type = "audio"
  /\ Len(last.result.items) = 1
  /\ Len(last.ov.results) = 2
  /\ RawKeys("openverse", last.ov) # Keys(last.result.items)
  /\ "pixabay-7" \in last.seenAfter["audio"]

\* the items the last call mapped from the providers' responses
Mapped ==
  (IF last.ov.kind = "ok" THEN Range(MapOpenverseAll(last.ov.results)) ELSE {}) \cup
  (IF last.px.kind = "ok" THEN Range(MapPixabayAll(last.px.results)) ELSE {})

\* a whitespace-separated lowercase exclusion term is a substring of
\* lowercase(title) + " " + lowercase(tags joined by spaces)
TermMatches(item, excludeWords) ==
  LET terms == Words(ToLowerCase(excludeWords))
      text == ToLowerCase(item.title) \o <<" ">> \o ToLowerCase(Join(item.tags, <<" ">>))
  IN  \E k \in 1..Len(terms) : Includes(text, terms[k])

\* the last call ran the exclusion filter and returned
Filtered ==
  /\ Searched
  /\ last.result.status = "ok"
  /\ Trim(last.args.excludeWords) # <<>>

\* the license filter of the image and audio branches drops the item
LicenseDropped(item) ==
  /\ last.type \in {"images", "audio"}
  /\ last.args.licenseFilter # "all"
  /\ last.args.sourceFilter = "openverse"
  /\ ~(item.source = "openverse" /\ item.license = last.args.licenseFilter)

\* the result holds another item under the item's key
Shadowed(item) ==
  \E y \in Range(last.result.items) : y # item /\ Key(y) = Key(item)

\* C10, as stated: with non-empty excludeWords an item is absent from the
\* result if and only if an exclusion term is a substring of its lowercase
\* title and tags.
C10_AbsentIffTermMatches ==
  Filtered =>
    \A x \in Mapped :
      x \notin Range(last.result.items) <=> TermMatches(x, last.args.excludeWords)

\* C10, amended: with non-empty excludeWords every item an exclusion term
\* matches is absent from the result, an item without tags being matched on
\* its title alone; an item is absent if and only if a term matches it, the
\* license filter drops it, or the result holds another item under its key.
C10_AbsentIffMatchedDroppedOrShadowed ==
  Filtered =>
    \A x \in Mapped :
      /\ x \notin Range(last.result.items) <=>
           \/ TermMatches(x, last.args.excludeWords)
           \/ LicenseDropped(x)
           \/ Shadowed(x)
      /\ x.tags = <<>> =>
           (TermMatches(x, last.args.excludeWords) <=>
              \E k \in 1..Len(Words(ToLowerCase(last.args.excludeWords))) :
                Includes(ToLowerCase(x.title), Words(ToLowerCase(last.args.excludeWords))[k]))

\* the term "a" of excludeWords "A" removes an item through its tag alone
\* while an item without tags stays
C10_Witness ==
  /\ Filtered
  /\ last.type = "images"
  /\ last.args.excludeWords = <<"A">>
  /\ \E x \in Mapped :
       /\ x.tags # <<>>
       /\ ~Includes(ToLowerCase(x.title), <<"a">>)
       /\ x \notin Range(last.result.items)
  /\ \E x \in Mapped : x.tags = <<>> /\ x \in Range(last.result.items)

\* the last call returned for a type that has a license filter, with a
\* license requested
Licensed ==
  /\ Searched
  /\ last.result.status = "ok"
  /\ last.type \in {"images", "audio"}
  /\ last.args.licenseFilter # "all"

\* C11, as stated: for images and audio, when licenseFilter is not "all" and
\* sourceFilter is all or openverse, every Openverse item among the returned
\* items has license exactly licenseFilter.
C11_LicenseWhenOpenverseIncluded ==
  (Licensed /\ last.args.sourceFilter \in {"all", "openverse"}) =>
    \A x \in Range(last.result.items) :
      x.source = "openverse" => x.license = last.args.licenseFilter

\* C11, amended: for images and audio, when licenseFilter is not "all" and
\* sourceFilter is exactly openverse, every returned item is an Openverse
\* item whose license is exactly licenseFilter, and every mapped item of that
\* license that no exclusion term matches and no other item shadows is
\* returned; with sourceFilter = all the license filter is not applied:
\* every mapped item that no term matches and no other item shadows is
\* returned, whatever its license.
C11_LicenseWhenOpenverseOnly ==
  /\ (Licensed /\ last.args.sourceFilter = "openverse") =>
       /\ \A x \in Range(last.result.items) :
            x.source = "openverse" /\ x.license = last.args.licenseFilter
       /\ \A x \in Mapped :
            (/\ x.license = last.args.licenseFilter
             /\ ~TermMatches(x, last.args.excludeWords)
             /\ ~Shadowed(x)) => x \in Range(last.result.items)
  /\ (Licensed /\ last.args.sourceFilter = "all") =>
       \A x \in Mapped :
         (~TermMatches(x, last.args.excludeWords) /\ ~Shadowed(x)) =>
           x \in Range(last.result.items)

\* the filter keeps the item licensed "by" and drops the one without license
C11_Witness ==
  /\ Licensed
  /\ last.type = "audio"
  /\ last.args.sourceFilter = "openverse"
  /\ last.args.excludeWords = <<>>
  /\ Len(last.ov.results) = 2
  /\ Len(last.result.items) = 1
  /\ \E x \in Mapped : x.license # last.args.licenseFilter

\* the requests the last call sent to a provider
Requests(provider) == {r \in Range(last.result.http) : r.provider = provider}

Returned == Searched /\ last.result.status = "ok"

\* C13: for every media type, with sortBy = title-asc the returned items are
\* in non-decreasing title order and with sortBy = title-desc in
\* non-increasing title order (locale-aware comparison), whatever the order
\* in which the providers returned them.
C13_TitleOrder ==
  Returned =>
    \A i, j \in 1..Len(last.result.items) :
      i < j =>
        /\ last.args.sortBy = "title-asc" =>
             LocaleCompare(last.result.items[i].title, last.result.items[j].title) <= 0
        /\ last.args.sortBy = "title-desc" =>
             LocaleCompare(last.result.items[i].title, last.result.items[j].title) >= 0

\* Openverse returned "Untitled" before "A" and the call returns "A" first
C13_Witness ==
  /\ Returned
  /\ last.type = "audio"
  /\ last.args.sortBy = "title-asc"
  /\ Len(last.ov.results) = 2
  /\ last.ov.results[1].title = <<>>
  /\ last.ov.results[2].title = <<"A">>
  /\ Len(last.result.items) = 2
  /\ last.result.items[1].title = <<"A">>
  /\ last.result.items[2].title = Untitled

\* the mapped items of the last call as fetchMedia merges them: Openverse's
\* in the order returned, then Pixabay's in the order returned
Merged ==
  (IF last.ov.kind = "ok" THEN MapOpenverseAll(last.ov.results) ELSE <<>>) \o
  (IF last.px.kind = "ok" THEN MapPixabayAll(last.px.results) ELSE <<>>)

\* C14: the sort of any key (size, title-asc, title-desc, source-asc,
\* source-desc), applied to a list that is already the output of that sort,
\* yields the identical order.
C14_SortIdempotent ==
  Returned =>
    \A k \in SortKeys \ {"relevance"} :
      SortItems(SortItems(Merged, k, last.type), k, last.type)
        = SortItems(Merged, k, last.type)

\* the source-desc sort moved a Pixabay image before an Openverse image
C14_Witness ==
  /\ Returned
  /\ last.type = "images"
  /\ last.args.sortBy = "source-desc"
  /\ Len(Merged) >= 3
  /\ SortItems(Merged, "source-desc", "images") # Merged
  /\ SortItems(Merged, "title-asc", "images") # Merged

\* a call of handleLoadMore whose fetchMediaCallback rejects with these answers
LoadMoreFails(f, ov, px) ==
  /\ f.kind = "more"
  /\ Outcome(f.type, f.page, f.args, ov, px).status # "ok"

\* C15: when a load-more call fails, the result lists and totals of every
\* type (and the page counters, fetched flags and seen ids) are what they were
\* before, and the error message is set.
C15_FailedLoadMoreKeepsResults ==
  [][\A f \in inflight :
       \A ov \in OvChoices(f.type, f.args, PageOvResponses(f.page)),
          px \in PxChoices(f.type, f.args, PagePxResponses(f.page)) :
         (LoadMoreFails(f, ov, px) /\ Settle(f, ov, px)) =>
           /\ results' = results
           /\ totals' = totals
           /\ pageNo' = pageNo
           /\ hasFetched' = hasFetched
           /\ seenIds' = seenIds
           /\ error' # ""]_vars

\* the call that settled last is a rejected load-more of a type that holds
\* page 1 and its total
C15_Witness ==
  /\ last.called
  /\ last.append
  /\ last.result.status # "ok"
  /\ error = last.result.error
  /\ pageNo[last.type] = 1
  /\ results[last.type] # <<>>
  /\ totals[last.type] # Null
  /\ ~loading

\* the page as a new query finds it after the reset
Cleared ==
  /\ seenIds = [t \in Types |-> {}]
  /\ results = [t \in Types |-> <<>>]
  /\ totals = [t \in Types |-> Null]
  /\ pageNo = [t \in Types |-> 1]
  /\ hasFetched = NoneFetched

\* the user issues a new top-level query: the URL's query becomes one that
\* differs from lastQuery, or the form is submitted with a non-empty input
NewQuery ==
  \/ \E q \in PageQueries : lastQuery # q /\ Navigate(q)
  \/ \E input \in PageQueries : handleSearch(input)

\* C16: whenever the user issues a new top-level query, the three Seen-ID
\* sets are cleared, the three result lists emptied, the totals reset to
\* null, the page counters to 1 and the hasFetched flags to false, and no
\* call started for the new query has settled by then.
C16_NewQueryResets ==
  [][NewQuery =>
       /\ Cleared'
       /\ \A f \in inflight' \ inflight : f.page = 1 /\ f.kind # "more"]_vars

\* a call for the former query returned items, the URL holds another query,
\* the page is cleared and the new query's calls are in flight
C16_Witness ==
  /\ last.called
  /\ last.result.status = "ok"
  /\ last.result.items # <<>>
  /\ filters.query # <<>>
  /\ last.args.query # filters.query
  /\ lastQuery = filters.query
  /\ Cleared
  /\ \E f \in inflight : f.args.query = filters.query

\* the calls of fetchMediaCallback for a type that have not settled
InFlight(type) == {f \in inflight : f.type = type}

\* C17, as stated: in every reachable state of the page at most one
\* fetchMedia call is in flight per media type; fetchInitial, fetchTabData
\* and handleLoadMore never overlap two page fetches for one type.
C17_OneInFlightPerType ==
  \A t \in Types : Cardinality(InFlight(t)) <= 1

\* a load-more of page 2 is the only call in flight
C17_Witness ==
  \E f \in inflight :
    /\ inflight = {f}
    /\ f.kind = "more"
    /\ loading
    /\ results[f.type] # <<>>

\* the calls of registerUser that began
Registered == {registrations[i] : i \in 1..Len(registrations)}

\* the form of the call lacks a name, an email or a password, or holds an
\* empty one
Incomplete(r) == Falsy(r.name) \/ Falsy(r.email) \/ Falsy(r.password)

\* C18: registerUser creates a user record only when name, email and
\* password are all present and no user with that email exists: with a
\* missing field it raises "All fields are required" without lookup, hashing
\* or creation; with an email that is already registered it raises
\* "User already exists" without hashing or creation.
C18_RegisterUser ==
  /\ \A r \in Registered :
       /\ Incomplete(r) =>
            /\ r.pc = "thrown"
            /\ r.error = "All fields are required"
            /\ r.lookups = 0 /\ r.hashes = 0 /\ r.creates = 0
       /\ (~Incomplete(r) /\ r.registered) =>
            /\ r.hashes = 0 /\ r.creates = 0
            /\ r.pc # "findUnique" => r.pc = "thrown" /\ r.error = "User already exists"
       /\ r.pc = "returned" =>
            /\ ~Incomplete(r)
            /\ ~r.registered
            /\ User(r.name[1], r.email[1], Hash(r.password[1])) \in users
  /\ \A u \in users :
       /\ u.name # "" /\ u.email # "" /\ u.password # Hash("")
       /\ \E r \in Registered : r.pc = "returned" /\ r.email = <<u.email>>
  /\ \A u, v \in users : u.email = v.email => u = v

\* one call created a user and a later call with the same email was refused
C18_Witness ==
  /\ Len(registrations) = 2
  /\ registrations[1].pc = "returned"
  /\ registrations[2].registered
  /\ registrations[2].email = registrations[1].email
  /\ registrations[2].error = "User already exists"
  /\ Cardinality(users) = 1

\* every item of source first stands before every item of source second
Precedes(items, first, second) ==
  \A i, j \in 1..Len(items) :
    (items[i].source = first /\ items[j].source = second) => i < j

\* C19: for images under sourceFilter = all, source-asc returns every
\* openverse item before every pixabay item and source-desc every pixabay
\* item before every openverse item.
C19_SourceOrder ==
  (Returned /\ last.type = "images" /\ last.args.sourceFilter = "all") =>
    /\ last.args.sortBy = "source-asc" =>
         Precedes(last.result.items, "openverse", "pixabay")
    /\ last.args.sortBy = "source-desc" =>
         Precedes(last.result.items, "pixabay", "openverse")

\* source-desc returned items of both providers
C19_Witness ==
  /\ Returned
  /\ last.type = "images"
  /\ last.args.sourceFilter = "all"
  /\ last.args.sortBy = "source-desc"
  /\ Len(last.result.items) >= 3
  /\ last.result.items[1].source = "pixabay"
  /\ last.result.items[Len(last.result.items)].source = "openverse"

\* where the providers first returned an item: its least position in the
\* merged responses (0 when they did not return it)
FirstIndex(item) ==
  IF \E k \in 1..Len(Merged) : Merged[k] = item
  THEN CHOOSE k \in 1..Len(Merged) :
         /\ Merged[k] = item
         /\ \A m \in 1..(k - 1) : Merged[m] # item
  ELSE 0

\* C20: under sortBy = relevance the returned items stand in the order the
\* providers returned them, for images Openverse's survivors before
\* Pixabay's; filtering and deduplication never reorder.
C20_RelevanceKeepsProviderOrder ==
  (Returned /\ last.args.sortBy = "relevance") =>
    /\ \A i \in 1..Len(last.result.items) : FirstIndex(last.result.items[i]) > 0
    /\ \A i, j \in 1..Len(last.result.items) :
         i < j => FirstIndex(last.result.items[i]) < FirstIndex(last.result.items[j])
    /\ Precedes(last.result.items, "openverse", "pixabay")

\* relevance returned survivors of both providers after an item was dropped
C20_Witness ==
  /\ Returned
  /\ last.type = "images"
  /\ last.args.sortBy = "relevance"
  /\ Len(last.result.items) >= 2
  /\ Len(last.result.items) < Len(Merged)
  /\ last.result.items[1].source = "openverse"
  /\ last.result.items[Len(last.result.items)].source = "pixabay"

\* the list the deduplicating loop of the last call walks: the merged items
\* after the exclusion filter, the license filter and the sort
PostSorted ==
  PostProcess(Merged, last.args.excludeWords, last.args.licenseFilter,
              last.args.sortBy, last.args.sourceFilter, last.type)

\* the first item of a list that has the key
FirstWithKey(items, key) ==
  items[CHOOSE i \in 1..Len(items) :
          /\ Key(items[i]) = key
          /\ \A m \in 1..(i - 1) : Key(items[m]) # key]

\* C21: no two items returned by one fetchMedia call share a composite key,
\* and of several items with one key the one returned is the first in
\* post-sort order.
C21_FirstOfKeyInSortOrder ==
  Returned =>
    /\ \A i, j \in 1..Len(last.result.items) :
         i # j => Key(last.result.items[i]) # Key(last.result.items[j])
    /\ Keys(last.result.items) = Keys(PostSorted)
    /\ \A i \in 1..Len(last.result.items) :
         last.result.items[i] = FirstWithKey(PostSorted, Key(last.result.items[i]))

\* Openverse returned two different items with one id and the sort put the
\* later one first: that one is returned
C21_Witness ==
  /\ Returned
  /\ Len(Merged) >= 2
  /\ Key(Merged[1]) = Key(Merged[2])
  /\ Merged[1] # Merged[2]
  /\ Len(PostSorted) >= 2
  /\ PostSorted[1] = Merged[2]
  /\ PostSorted[2] = Merged[1]
  /\ last.result.items[1] = Merged[2]

\* the call of fetchSize is over
ProbeOver == probe.pc \in {"returned", "thrown", "mapped"}

\* the request of that method was issued
Requested(method) == \E i \in 1..Len(probe.requests) : probe.requests[i] = method

\* the HEAD request yielded a size: it was answered with a success status
\* and a Content-Length header
HeadYieldedSize ==
  /\ probe.headResponse.kind = "ok"
  /\ probe.headResponse.contentLength # Null

\* C22, as stated: fetchSize falls back to the range GET in every case where
\* the HEAD request does not yield a size (it throws, is answered with a
\* non-success status, or succeeds without a Content-Length header), and
\* never issues the range GET when HEAD yielded a size.
C22_FallbackWheneverNoSize ==
  (ProbeOver /\ Requested("HEAD")) => (Requested("GET") <=> ~HeadYieldedSize)

\* the HEAD request threw and the range GET read the size off Content-Range
C22_Witness ==
  /\ probe.pc = "returned"
  /\ probe.headResponse.kind = "throw"
  /\ probe.requests = <<"HEAD", "GET">>
  /\ probe.getResponse.kind = "ok"
  /\ probe.size = <<9>>

\* C23: the size probe never surfaces an error: for every url and every
\* combination of HEAD and GET outcomes fetchSize ends after at most two
\* requests with a number or undefined, and the mapping that called it
\* builds its item.
C23_ProbeNeverThrows ==
  /\ probe.pc # "thrown"
  /\ Len(probe.requests) <= 2
  /\ ProbeOver => (probe.size = NoSize \/ Len(probe.size) = 1)
  /\ probe.pc \in {"head", "get"} => ENABLED (NextSize)

\* both requests failed (HEAD answered with a non-success status, the GET
\* rejected) and the item was built with size undefined
C23_Witness ==
  /\ probe.pc = "mapped"
  /\ probe.headResponse.kind = "status"
  /\ probe.getResponse.kind = "throw"
  /\ probe.requests = <<"HEAD", "GET">>
  /\ probe.size = NoSize

\* the last call asked for a type from the provider that does not serve it
WrongProvider ==
  \/ last.type = "audio" /\ last.args.sourceFilter = "pixabay"
  \/ last.type = "videos" /\ last.args.sourceFilter = "openverse"

\* C24: fetchMedia for audio with sourceFilter = pixabay, and for videos with
\* sourceFilter = openverse, returns {items: [], total: 0} without an HTTP
\* call and without changing a Seen-ID set; an audio result holds no pixabay
\* item and a video result no openverse item.
C24_SingleProviderTypes ==
  /\ (last.called /\ WrongProvider) =>
       /\ last.result.status = "ok"
       /\ last.result.items = <<>>
       /\ last.result.total = 0
       /\ last.result.http = <<>>
       /\ last.seenAfter = last.seenBefore
  /\ (last.called /\ last.result.status = "ok") =>
       \A i \in 1..Len(last.result.items) :
         /\ last.type = "audio" => last.result.items[i].source = "openverse"
         /\ last.type = "videos" => last.result.items[i].source = "pixabay"

\* audio was searched with sourceFilter = pixabay while the refs held keys
C24_Witness ==
  /\ Searched
  /\ last.type = "audio"
  /\ last.args.sourceFilter = "pixabay"
  /\ last.seenBefore["audio"] # {}
  /\ last.result.status = "ok"
  /\ last.result.items = <<>>

\* a call in flight that was issued for a query other than the one of the
\* current session
Stale(f) == f.args.query # lastQuery

\* C25, as stated: a fetchMedia call still in flight when a new top-level
\* query cleared the state does not, on completion, write its keys into the
\* Seen-ID sets or its items or total into the results.
C25_StaleCallWritesNothing ==
  [][\A f \in inflight :
       \A ov \in OvChoices(f.type, f.args, PageOvResponses(f.page)),
          px \in PxChoices(f.type, f.args, PagePxResponses(f.page)) :
         (Stale(f) /\ Settle(f, ov, px)) =>
           /\ seenIds' = seenIds
           /\ results' = results
           /\ totals' = totals]_vars

\* the only call of the session has settled: the list and the Seen-ID set of
\* its type hold what it returned for the current query
C25_Witness ==
  /\ last.called
  /\ last.args.query = lastQuery
  /\ last.args.query = filters.query
  /\ last.result.status = "ok"
  /\ last.result.items # <<>>
  /\ issued = 2
  /\ results[last.type] = last.result.items
  /\ seenIds[last.type] = Keys(last.result.items)

\* C26: a fetchMedia call for a media type, whether it succeeds or fails,
\* leaves the Seen-ID sets of the other two types unchanged, and a failing
\* call leaves the set of its own type unchanged as well.
C26_SeenFrame ==
  last.called =>
    /\ \A t \in Types \ {last.type} : last.seenAfter[t] = last.seenBefore[t]
    /\ last.result.status # "ok" => last.seenAfter = last.seenBefore

\* a call failed after its request while the refs held keys
C26_Witness ==
  /\ Searched
  /\ last.result.status # "ok"
  /\ last.result.http # <<>>
  /\ \A t \in Types : last.seenBefore[t] # {}
  /\ last.seenAfter = last.seenBefore

\* other contents the three refs could have held before the last call
OtherSeen ==
  {[t \in Types |-> keys] :
     keys \in {{}, {"openverse-1", "pixabay-1"}, {"openverse-2", "pixabay-2"}}}

\* the last call made again on other refs, with the same arguments, key and
\* provider responses
Recall(seen) ==
  fetchMedia(last.type, last.page, last.args.query, last.args.exactPhrase,
             last.args.excludeWords, last.args.licenseFilter, last.args.sortBy,
             last.args.sourceFilter, pixabayApiKey, seen, last.ov, last.px)

\* C27: the items and total fetchMedia returns depend on the search
\* parameters and the provider responses only: a call that differs only in
\* the prior contents of the Seen-ID sets (or the append flag, which the
\* function never reads) returns the same items and total.
C27_ResultIndependentOfSeen ==
  last.called =>
    \A seen \in OtherSeen :
      \E again \in {Recall(seen)} :
        /\ again.status = last.result.status
        /\ again.items = last.result.items
        /\ again.total = last.result.total

\* the call returned an item whose key the refs already held
C27_Witness ==
  /\ Returned
  /\ \E i \in 1..Len(last.result.items) :
       Key(last.result.items[i]) \in last.seenBefore[last.type]
  /\ \E seen \in OtherSeen :
       \E i \in 1..Len(last.result.items) :
         Key(last.result.items[i]) \notin seen[last.type]

\* C28, as stated: loading is true in every state in which a main fetch
\* (initial, tab-change or load-more, of any type) is in flight, so the Load
\* More button is never enabled while a fetch is pending.
C28_LoadingWhileInFlight ==
  /\ inflight # {} => loading
  /\ \A type \in Types : LoadMoreEnabled(type) => inflight = {}

\* both calls of a first load are in flight and loading is true
C28_Witness ==
  /\ issued = 2
  /\ Cardinality(inflight) = 2
  /\ loading
  /\ \A type \in Types : ~LoadMoreEnabled(type)

\* a call of handleLoadMore of that type settles and fetchMediaCallback
\* resolved
LoadMoreSucceeds(f, ov, px) ==
  /\ f.kind = "more"
  /\ Outcome(f.type, f.page, f.args, ov, px).status = "ok"
  /\ Settle(f, ov, px)

\* C29, as stated: within one query session the page counter of a type
\* advances by exactly 1 on each successful load-more of that type and is
\* unchanged by a failed one, by loads of other types and by tab switches,
\* so that the pages appended are 1, 2, 3, ... with none skipped and none
\* appended twice.
C29_PageCounterAdvancesByOne ==
  [][/\ \A f \in inflight :
          \A ov \in OvChoices(f.type, f.args, PageOvResponses(f.page)),
             px \in PxChoices(f.type, f.args, PagePxResponses(f.page)) :
            /\ (LoadMoreSucceeds(f, ov, px) /\ ~Stale(f)) =>
                 pageNo' = [pageNo EXCEPT ![f.type] = pageNo[f.type] + 1]
            /\ (~LoadMoreSucceeds(f, ov, px) /\ Settle(f, ov, px)) => pageNo' = pageNo
     /\ \A tab \in Types : setActiveTab(tab) => pageNo' = pageNo
     /\ \A type \in Types : handleLoadMore(type) => pageNo' = pageNo]_vars

\* two load-mores in a row succeeded: the list holds pages 1, 2 and 3
C29_Witness ==
  /\ last.called
  /\ last.append
  /\ last.page = 3
  /\ last.result.status = "ok"
  /\ pageNo[last.type] = 3
  /\ Len(results[last.type]) = 3
  /\ inflight = {}


\* a fetch of related items for the item can return r: r is held by the
\* item's provider and carries the item's first tag
RelatedTo(r, item) ==
  /\ item.tags # <<>>
  /\ r.source = item.source
  /\ HasTag(r, item.tags[1])

\* C30: in the detail modal, whenever no fetch of related items is in
\* flight, every item of the related list was fetched for the selected item
\* and none has the selected item's id.
C30_RelatedListOfSelectedItem ==
  (relatedInflight = <<>> /\ selectedItem # Null) =>
    \A k \in 1..Len(relatedItems) :
      /\ relatedItems[k].id # selectedItem[1].id
      /\ RelatedTo(relatedItems[k], selectedItem[1])

\* a second page was appended to the related list of the selected item and
\* nothing is in flight
C30_Witness ==
  /\ relatedInflight = <<>>
  /\ ModalShown
  /\ relatedPage = 2
  /\ Len(relatedItems) > relatedPerPage - 1
  /\ \A k \in 1..Len(relatedItems) :
       /\ relatedItems[k].id # selectedItem[1].id
       /\ RelatedTo(relatedItems[k], selectedItem[1])

====
